---- MODULE Spec2Model ----
(***************************************************************************)
(* Parcel-to-volume pipeline of the massing repository:                    *)
(*   batch_massing.py   _to_number, _to_ratio, _to_far, _largest_polygon,  *)
(*                      _scale_to_area, run_batch                          *)
(*   volume_generator.py  _largest_polygon, extrude_polygon                *)
(*   metrics.py, rules.py  parcel_metrics, far_rule_area                   *)
(*                                                                         *)
(* Numbers.  A Python float is modelled by an exact decimal                *)
(* [m |-> mantissa, e |-> digits after the point], value m / 10^e, kept    *)
(* normalised (no trailing zero in the fraction), so that equal values are *)
(* equal records.  Arithmetic is exact; binary rounding is not modelled.   *)
(***************************************************************************)
EXTENDS Integers, Sequences, FiniteSets, TLC

VARIABLES norm, ext, vol, feats, cfg, parcels, idx, rows, buildings, status, log

vars == <<norm, ext, vol, feats, cfg, parcels, idx, rows, buildings, status, log>>

-----------------------------------------------------------------------------
(* Exact decimals *)

RECURSIVE Dec(_, _)
Dec(m, e) ==
    IF m = 0 THEN [m |-> 0, e |-> 0]
    ELSE IF e > 0 /\ m % 10 = 0 THEN Dec(m \div 10, e - 1)
    ELSE [m |-> m, e |-> e]

DInt(n) == Dec(n, 0)

MaxOf(a, b) == IF a >= b THEN a ELSE b

\* both mantissas brought to the common exponent MaxOf(a.e, b.e)
Lift(a, b) == IF a.m = 0 THEN 0 ELSE a.m * 10 ^ (MaxOf(a.e, b.e) - a.e)

RECURSIVE NumDigits(_)
NumDigits(n) == IF n < 10 THEN 1 ELSE 1 + NumDigits(n \div 10)

\* Lift for a comparison of numbers of very different size (an area of 1e-9
\* against 600): a mantissa that would pass 10^9 when lifted is held at 10^9,
\* which every mantissa the other side can have (below 10^9) stays under
CmpLift(a, b) ==
    LET gap == MaxOf(a.e, b.e) - a.e
    IN  IF a.m = 0 THEN 0
        ELSE IF NumDigits(IF a.m < 0 THEN 0 - a.m ELSE a.m) + gap > 9
             THEN (IF a.m < 0 THEN 0 - 10 ^ 9 ELSE 10 ^ 9)
             ELSE a.m * 10 ^ gap

DLt(a, b) == CmpLift(a, b) < CmpLift(b, a)
DLe(a, b) == CmpLift(a, b) <= CmpLift(b, a)
DGt(a, b) == DLt(b, a)
DMin(a, b) == IF DLt(b, a) THEN b ELSE a      \* Python min(a, b): b only when b < a
DMax(a, b) == IF DGt(b, a) THEN b ELSE a      \* Python max(a, b): b only when b > a
DMul(a, b) == Dec(a.m * b.m, a.e + b.e)
DDiv100(a) == Dec(a.m, a.e + 2)
DSub(a, b) == Dec(Lift(a, b) - Lift(b, a), MaxOf(a.e, b.e))

\* math.ceil(a / b) for b > 0
DCeilDiv(a, b) ==
    LET p == Lift(a, b)
        q == Lift(b, a)
    IN  IF p % q = 0 THEN p \div q ELSE (p \div q) + 1

\* a // b (floor division) for b > 0
DFloorDiv(a, b) == Lift(a, b) \div Lift(b, a)

-----------------------------------------------------------------------------
(* Raw attribute values: None, an int/float, or a str (sequence of chars) *)

PyNone == [t |-> "None", v |-> DInt(0), s |-> <<>>]
Num(d) == [t |-> "num", v |-> d, s |-> <<>>]
Str(s) == [t |-> "str", v |-> DInt(0), s |-> s]

Digits == {"0", "1", "6", "8"}
DigitVal == ("0" :> 0 @@ "1" :> 1 @@ "6" :> 6 @@ "8" :> 8)
\* The characters strings are built from.  It has no "e"/"E", so the optional
\* exponent group of the number pattern always matches the empty string.
Alphabet == Digits \cup {".", "%", "-", ",", " "}

RECURSIVE LStrip(_)
LStrip(s) == IF s # <<>> /\ Head(s) = " " THEN LStrip(Tail(s)) ELSE s

RECURSIVE RStrip(_)
RStrip(s) ==
    IF s # <<>> /\ s[Len(s)] = " " THEN RStrip(SubSeq(s, 1, Len(s) - 1)) ELSE s

\* str.strip()
Strip(s) == RStrip(LStrip(s))

\* s.replace(",", "")
RemoveCommas(s) == SelectSeq(s, LAMBDA c : c # ",")

\* index just past the longest run of digits of s that starts at p
RECURSIVE DigitsEnd(_, _)
DigitsEnd(s, p) ==
    IF p <= Len(s) /\ s[p] \in Digits THEN DigitsEnd(s, p + 1) ELSE p

\* The pattern [-+]?\d*\.?\d+ tried at position p: the index just past the
\* match, or 0 when it does not match there.  The sign is taken when present;
\* \d* takes the whole digit run; if a "." followed by a digit comes next the
\* fraction is taken, otherwise \d* gives back its last digit to \d+.
MatchEnd(s, p) ==
    LET q == IF s[p] \in {"-", "+"} THEN p + 1 ELSE p
        r == DigitsEnd(s, q)
    IN  IF r + 1 <= Len(s) /\ s[r] = "." /\ s[r + 1] \in Digits
        THEN DigitsEnd(s, r + 1)
        ELSE IF r > q THEN r ELSE 0

\* re.search: the leftmost position where the pattern matches, 0 when none
RECURSIVE SearchFrom(_, _)
SearchFrom(s, p) ==
    IF p > Len(s) THEN 0
    ELSE IF MatchEnd(s, p) > 0 THEN p
    ELSE SearchFrom(s, p + 1)

RECURSIVE DigitsVal(_)
DigitsVal(ds) ==
    IF ds = <<>> THEN 0
    ELSE DigitsVal(SubSeq(ds, 1, Len(ds) - 1)) * 10 + DigitVal[ds[Len(ds)]]

\* float(tok) for a token the pattern matched
FloatOf(tok) ==
    LET signed == tok[1] \in {"-", "+"}
        body == IF signed THEN Tail(tok) ELSE tok
        digs == SelectSeq(body, LAMBDA c : c # ".")
        dot == CHOOSE k \in 1..(Len(body) + 1) :
                   (k <= Len(body) /\ body[k] = ".")
                   \/ (k = Len(body) + 1 /\ \A j \in 1..Len(body) : body[j] # ".")
        mag == DigitsVal(digs)
        nfrac == IF dot <= Len(body) THEN Len(body) - dot ELSE 0
    IN  Dec(IF tok[1] = "-" THEN 0 - mag ELSE mag, nfrac)

\* True when _to_number falls through to `return default`
Unparseable(x) ==
    \/ x.t = "None"
    \/ /\ x.t = "str"
       /\ \/ Strip(x.s) = <<>>
          \/ SearchFrom(RemoveCommas(Strip(x.s)), 1) = 0

_to_number(x, default) ==
    IF x.t = "None" THEN default
    ELSE IF x.t = "num" THEN x.v
    ELSE LET s0 == Strip(x.s)
             s == RemoveCommas(s0)
             p == SearchFrom(s, 1)
         IN  IF s0 = <<>> THEN default
             ELSE IF p = 0 THEN default
             ELSE FloatOf(SubSeq(s, p, MatchEnd(s, p) - 1))

One == DInt(1)
Zero == DInt(0)
Ten == DInt(10)

\* clamped to [0, 1] without the percent reading of values above 1.0
_to_ratio_clamp_only(x, default) ==
    DMax(Zero, DMin(_to_number(x, default), One))

\* the percent reading with _to_ratio's threshold of 1.0
_to_far_threshold_one(x, default) ==
    LET v == _to_number(x, default)
        w == IF DGt(v, One) THEN DDiv100(v) ELSE v
    IN  DMax(Zero, w)

\* default is a float at every call site, so `if v is None: v = default`
\* (lines 50-51, 65-66) leaves v as it is.
_to_ratio(x, default) ==
    LET v == _to_number(x, default)
        w == IF DGt(v, One) THEN DDiv100(v) ELSE v
    IN  DMax(Zero, DMin(w, One))

_to_far(x, default) ==
    LET v == _to_number(x, default)
        w == IF DGt(v, Ten) THEN DDiv100(v) ELSE v
    IN  DMax(Zero, w)

-----------------------------------------------------------------------------
(* Geometry.  A point carries the squared factor s2 by which affinity.scale  *)
(* moved it towards the centroid: the factor itself, a square root, is       *)
(* irrational in general, so scaled coordinates stay symbolic.               *)

UnitScale == [num |-> One, den |-> One]
Pt(x, y) == [x |-> x, y |-> y, s2 |-> UnitScale]

AbsOf(n) == IF n < 0 THEN 0 - n ELSE n

\* twice the signed area of a closed ring (shoelace)
RECURSIVE Shoelace(_, _)
Shoelace(ring, k) ==
    IF k >= Len(ring) THEN 0
    ELSE ring[k].x * ring[k + 1].y - ring[k + 1].x * ring[k].y + Shoelace(ring, k + 1)

RingArea(ring) == Dec(5 * AbsOf(Shoelace(ring, 1)), 1)

\* the area of a ring whose coordinates are multiples of 10^-unit
RingAreaAt(ring, unit) == Dec(5 * AbsOf(Shoelace(ring, 1)), 1 + 2 * unit)

\* shapely Polygon(shell): the ring is stored closed.  area is the area of the
\* ring in exact arithmetic; ulps is the number of units in the last place by
\* which the binary64 value of .area differs from it (0 for rings with integer
\* coordinates, whose area binary64 computes exactly).
\* unit is the length unit of the ring: a coordinate x stands for x * 10^-unit.
PolygonAt(ring, unit) ==
    [type |-> "Polygon", ring |-> ring, area |-> RingAreaAt(ring, unit),
     ulps |-> 0, unit |-> unit]
Polygon(ring) == PolygonAt(ring, 0)
EmptyPolygon ==
    [type |-> "Polygon", ring |-> <<>>, area |-> Zero, ulps |-> 0, unit |-> 0]
MultiPolygon(parts) == [type |-> "MultiPolygon", geoms |-> parts]
LineString == [type |-> "LineString"]
NoGeom == [type |-> "None"]

\* shapely.geometry.box(minx, miny, maxx, maxy)
boxAt(unit, minx, miny, maxx, maxy) ==
    PolygonAt(<<Pt(maxx, miny), Pt(maxx, maxy), Pt(minx, maxy), Pt(minx, miny),
                Pt(maxx, miny)>>, unit)

box(minx, miny, maxx, maxy) == boxAt(0, minx, miny, maxx, maxy)

\* Two a x a squares joined along their bottom edge by a corridor g long and
\* w high (w < a):  (0,0) (2a+g,0) (2a+g,a) (a+g,a) (a+g,w) (a,w) (a,a) (0,a)
TwoSquares(unit, a, g, w) ==
    PolygonAt(<<Pt(0, 0), Pt(2 * a + g, 0), Pt(2 * a + g, a), Pt(a + g, a),
                Pt(a + g, w), Pt(a, w), Pt(a, a), Pt(0, a), Pt(0, 0)>>, unit)

RECURSIVE SumAreas(_, _)
SumAreas(parts, k) ==
    IF k > Len(parts) THEN Zero
    ELSE LET rest == SumAreas(parts, k + 1)
             a == parts[k].area
         IN  Dec(Lift(a, rest) + Lift(rest, a), MaxOf(a.e, rest.e))

\* geom.area
GeomArea(g) == IF g.type = "MultiPolygon" THEN SumAreas(g.geoms, 1) ELSE g.area

is_empty(g) ==
    CASE g.type = "Polygon" -> g.ring = <<>>
      [] g.type = "MultiPolygon" -> \A k \in DOMAIN g.geoms : g.geoms[k].ring = <<>>
      [] OTHER -> FALSE

\* max(parts, key=area): the first part of largest area
ArgMaxArea(parts) ==
    CHOOSE k \in DOMAIN parts :
        /\ \A j \in DOMAIN parts : DLe(parts[j].area, parts[k].area)
        /\ \A j \in 1..(k - 1) : DLt(parts[j].area, parts[k].area)

Raised(msg) == [raised |-> TRUE, err |-> msg]
Ok(v) == [raised |-> FALSE, val |-> v]

\* volume_generator._largest_polygon
vg_largest_polygon(geom) ==
    IF geom.type = "None" \/ is_empty(geom)
    THEN Raised("Empty geometry (cannot extrude).")
    ELSE IF geom.type = "Polygon" THEN Ok(geom)
    ELSE IF geom.type = "MultiPolygon"
    THEN LET parts == SelectSeq(geom.geoms,
                                LAMBDA g : g.ring # <<>> /\ DGt(g.area, Zero))
         IN  IF parts = <<>> THEN Raised("MultiPolygon has no non-empty parts.")
             ELSE Ok(parts[ArgMaxArea(parts)])
    ELSE Raised("Unsupported geometry type for extrusion")

Reverse(s) == [k \in 1..Len(s) |-> s[Len(s) + 1 - k]]

P3(p, z) == [p |-> p, z |-> z]

\* the side faces without the modulo: the closing edge gets no face
extrude_polygon_no_wrap(geom, height) ==
    IF DLe(height, Zero) THEN Raised("height must be positive")
    ELSE LET lp == vg_largest_polygon(geom)
         IN  IF lp.raised THEN lp
             ELSE LET ring == lp.val.ring
                      coords2d == SubSeq(ring, 1, Len(ring) - 1)
                      n == Len(coords2d)
                      bottom == [k \in 1..n |-> P3(coords2d[k], Zero)]
                      top == [k \in 1..n |-> P3(coords2d[k], height)]
                      sides == [i \in 1..(n - 1) |->
                                  <<bottom[i], bottom[i + 1], top[i + 1], top[i]>>]
                  IN  IF n < 3
                      THEN Raised("Polygon exterior has fewer than 3 vertices")
                      ELSE Ok(<<bottom, Reverse(top)>> \o sides)

\* without the height check of lines 207-208
extrude_polygon_any_height(geom, height) ==
    LET lp == vg_largest_polygon(geom)
    IN  IF lp.raised THEN lp
        ELSE LET ring == lp.val.ring
                 coords2d == SubSeq(ring, 1, Len(ring) - 1)
                 n == Len(coords2d)
                 bottom == [k \in 1..n |-> P3(coords2d[k], Zero)]
                 top == [k \in 1..n |-> P3(coords2d[k], height)]
                 sides == [i \in 1..n |->
                             LET j == (i % n) + 1
                             IN  <<bottom[i], bottom[j], top[j], top[i]>>]
             IN  IF n < 3
                 THEN Raised("Polygon exterior has fewer than 3 vertices")
                 ELSE Ok(<<bottom, Reverse(top)>> \o sides)

extrude_polygon(geom, height) ==
    IF DLe(height, Zero) THEN Raised("height must be positive")
    ELSE LET lp == vg_largest_polygon(geom)
         IN  IF lp.raised THEN lp
             ELSE LET ring == lp.val.ring
                      coords2d == SubSeq(ring, 1, Len(ring) - 1)
                      n == Len(coords2d)
                      bottom == [k \in 1..n |-> P3(coords2d[k], Zero)]
                      top == [k \in 1..n |-> P3(coords2d[k], height)]
                      sides == [i \in 1..n |->
                                  LET j == (i % n) + 1
                                  IN  <<bottom[i], bottom[j], top[j], top[i]>>]
                  IN  IF n < 3
                      THEN Raised("Polygon exterior has fewer than 3 vertices")
                      ELSE Ok(<<bottom, Reverse(top)>> \o sides)

-----------------------------------------------------------------------------
(* batch_massing.py geometry helpers *)

\* 1e-9 = 10^-EpsDigits
EpsDigits == 9
Eps == [m |-> 1, e |-> EpsDigits]

\* a <= 1e-9 and a < 1e-9, without forming a.m * 10^9
LeEps(a) == a.m <= 0 \/ (a.e >= EpsDigits /\ a.m <= 10 ^ (a.e - EpsDigits))
LtEps(a) == a.m <= 0 \/ (a.e >= EpsDigits /\ a.m < 10 ^ (a.e - EpsDigits))

\* max(a, 1e-9)
MaxEps(a) == IF LtEps(a) THEN Eps ELSE a

\* batch_massing._largest_polygon
_largest_polygon(geom) ==
    IF geom.type = "MultiPolygon"
    THEN LET parts == SelectSeq(geom.geoms,
                                LAMBDA g : g.ring # <<>> /\ ~LeEps(g.area))
         IN  IF parts = <<>> THEN Raised("MultiPolygon has no non-empty parts.")
             ELSE Ok(parts[ArgMaxArea(parts)])
    ELSE Ok(geom)

\* Bounding box of a ring.  The polygons run_batch is given here are
\* axis-aligned boxes and collinear (zero-area) triangles.
MinX(ring) == CHOOSE v \in {ring[k].x : k \in DOMAIN ring} :
                  \A k \in DOMAIN ring : v <= ring[k].x
MaxX(ring) == CHOOSE v \in {ring[k].x : k \in DOMAIN ring} :
                  \A k \in DOMAIN ring : v >= ring[k].x
MinY(ring) == CHOOSE v \in {ring[k].y : k \in DOMAIN ring} :
                  \A k \in DOMAIN ring : v <= ring[k].y
MaxY(ring) == CHOOSE v \in {ring[k].y : k \in DOMAIN ring} :
                  \A k \in DOMAIN ring : v >= ring[k].y

\* the distance s in the length unit of a polygon (a whole number of units
\* for the distances and polygons used here)
InUnits(s, unit) == s.m * 10 ^ (unit - s.e)

\* poly.buffer(-s) for s > 0.  A box gives the inset box, empty when the
\* setback eats it (or the polygon has no interior).  Two squares joined by a
\* corridor no higher than s give the two inset squares, a MultiPolygon: every
\* point of the corridor is within s of the bottom edge, and the inset of each
\* square is bounded by straight edges only.
buffer_in(poly, s) ==
    IF poly.ring = <<>> \/ poly.area = Zero THEN EmptyPolygon
    ELSE LET d == InUnits(s, poly.unit)
             x0 == MinX(poly.ring)
             x1 == MaxX(poly.ring)
             y0 == MinY(poly.ring)
             y1 == MaxY(poly.ring)
         IN  IF Len(poly.ring) = 5
             THEN IF x1 - x0 > 2 * d /\ y1 - y0 > 2 * d
                  THEN boxAt(poly.unit, x0 + d, y0 + d, x1 - d, y1 - d)
                  ELSE EmptyPolygon
             ELSE LET a == poly.ring[3].y
                      w == poly.ring[5].y
                      g == poly.ring[5].x - poly.ring[6].x
                  IN  CASE a <= 2 * d -> EmptyPolygon
                        [] a > 2 * d /\ d >= w ->
                             MultiPolygon(<<boxAt(poly.unit, d, d, a - d, a - d),
                                            boxAt(poly.unit, a + g + d, d,
                                                  2 * a + g - d, a - d)>>)

\* The rounding binary64 leaves in the area of a box of area `area` scaled by
\* sqrt(target / area) about its centroid (lines 96-97, then .area): the
\* factor is a rounded square root, each corner is s * x + (x0 - x0 * s), and
\* the ring area is accumulated from the rounded corners.  Evaluated in
\* IEEE-754 double arithmetic for the regions scaled here:
\*    24 (6 x 4)   -> 14.4 : 14.4                 (0 ulp)
\*  2400 (60 x 40) -> 1440 : 1440.0               (0 ulp)
\*  1836 (54 x 34) -> 1440 : 1439.9999999999998   (-1 ulp)
ScaleUlps(area, target) ==
    IF area = DInt(1836) /\ target = DInt(1440) THEN 0 - 1 ELSE 0

\* poly.area as the code reads it: the exact area and the rounding it carries
FloatArea(poly) == [m |-> poly.area.m, e |-> poly.area.e, u |-> poly.ulps]

\* the exact decimal a float area is rounded from
Nominal(a) == Dec(a.m, a.e)

\* affinity.scale(poly, xfact=sqrt(num/den), yfact=..., origin="centroid"):
\* every point moves towards the centroid, the area is multiplied by num/den
\* (den is poly.area, so the new area is num)
scale_about_centroid(poly, num, den) ==
    [type |-> "Polygon",
     ring |-> [k \in DOMAIN poly.ring |->
                  [poly.ring[k] EXCEPT !.s2 = [num |-> num, den |-> den]]],
     area |-> num,
     ulps |-> ScaleUlps(den, num),
     unit |-> poly.unit]

\* the scale without min(..., 1.0): the region is enlarged to the target
_scale_to_area_enlarging(poly, target_area) ==
    IF poly.ring = <<>> \/ LeEps(poly.area) THEN poly
    ELSE IF LeEps(target_area) THEN EmptyPolygon
    ELSE scale_about_centroid(poly, target_area, poly.area)

_scale_to_area(poly, target_area) ==
    IF poly.ring = <<>> \/ LeEps(poly.area) THEN poly
    ELSE IF LeEps(target_area) THEN EmptyPolygon       \* poly.buffer(-1e9)
    ELSE IF DLt(target_area, poly.area)
         THEN scale_about_centroid(poly, target_area, poly.area)
         ELSE poly                                     \* scale = sqrt(1.0)

RECURSIVE GCD(_, _)
GCD(a, b) == IF b = 0 THEN a ELSE GCD(b, a % b)

\* the sum over the ring's edges of (c_k + c_k+1) * cross_k, c the x or the y
\* coordinate
RECURSIVE CentroidSum(_, _, _)
CentroidSum(ring, axis, k) ==
    IF k >= Len(ring) THEN 0
    ELSE (ring[k][axis] + ring[k + 1][axis])
             * (ring[k].x * ring[k + 1].y - ring[k + 1].x * ring[k].y)
         + CentroidSum(ring, axis, k + 1)

\* poly.centroid.x / .y: the quotient num / den, in the ring's length unit
RingCentroid(ring, axis, unit) ==
    [num |-> CentroidSum(ring, axis, 1), den |-> 3 * Shoelace(ring, 1),
     unit |-> unit]

\* metrics.parcel_metrics.  The minimum rotated rectangle of a box, and of the
\* two joined squares (whose convex hull is their bounding box), is the
\* bounding box;
\* that of a collinear ring is a LineString, whose .exterior does not exist
\* (line 18 raises AttributeError).
parcel_metrics(poly) ==
    LET dx == MaxX(poly.ring) - MinX(poly.ring)
        dy == MaxY(poly.ring) - MinY(poly.ring)
        width == MaxOf(dx, dy)
        depth == IF dx <= dy THEN dx ELSE dy
        g == GCD(width, depth)
    IN  IF poly.area = Zero THEN Raised("AttributeError: exterior")
        ELSE Ok([area |-> poly.area,
                 centroid_x |-> RingCentroid(poly.ring, "x", poly.unit),
                 centroid_y |-> RingCentroid(poly.ring, "y", poly.unit),
                 width |-> Dec(width, poly.unit),
                 depth |-> Dec(depth, poly.unit),
                 aspect_ratio |-> [num |-> width \div g, den |-> depth \div g]])

\* rules.far_rule_area
far_rule_area(m) ==
    IF DLt(m.area, DInt(600)) THEN Dec(18, 1)
    ELSE IF DLt(m.area, DInt(1200)) THEN Dec(26, 1)
    ELSE IF DLt(m.area, DInt(2500)) THEN Dec(32, 1)
    ELSE DInt(4)

\* rules.far_rule_frontage (ar >= 3.5 as 2 * width >= 7 * depth)
far_rule_frontage(m) ==
    IF DLe(DInt(30), m.width) THEN DInt(4)
    ELSE IF DLe(DInt(20), m.width) THEN Dec(32, 1)
    ELSE IF 2 * m.aspect_ratio.num >= 7 * m.aspect_ratio.den THEN DInt(2)
    ELSE Dec(26, 1)

\* float(far_rule(m)) for the rule the caller passed; "raising" is a rule
\* that raises an Exception
call_far_rule(rule, m) ==
    CASE rule = "far_rule_area" -> Ok(far_rule_area(m))
      [] rule = "far_rule_frontage" -> Ok(far_rule_frontage(m))
      [] OTHER -> Raised("rule failed")

-----------------------------------------------------------------------------
(* run_batch: one loop iteration, for parcel p under configuration c.        *)
(* The result says whether the iteration raised, the row and building it     *)
(* appends, and a trace entry of which branches ran.                         *)

\* v bound to x once, then F(x): a local variable of the Python code
Bind(v, F(_)) == CHOOSE r \in {F(x) : x \in {v}} : TRUE

HasKey(props, k) == k \in DOMAIN props

\* the rule asked first, the attribute only when the rule fails
resolve_ratios_rule_first(props, m, c) ==
    LET bcr_raw == IF HasKey(props, "building_r") THEN props["building_r"]
                   ELSE Num(c.fallback_bcr)
        has_far == /\ HasKey(props, "floor_r")
                   /\ props["floor_r"] \notin {PyNone, Str(<<>>)}
    IN  Bind(call_far_rule(c.far_rule, m), LAMBDA rr :
            [bcr |-> _to_ratio(bcr_raw, c.fallback_bcr),
             far |-> IF ~rr.raised THEN rr.val
                     ELSE IF has_far THEN _to_far(props["floor_r"], c.fallback_far)
                     ELSE c.fallback_far,
             far_from |-> IF ~rr.raised THEN "rule"
                          ELSE IF has_far THEN "attribute" ELSE "default",
             rule_called |-> TRUE, rule_failed |-> rr.raised])

\* lines 129-138: the coverage ratio and the floor-area ratio of a parcel
resolve_ratios(props, m, c) ==
    LET \* props.get("building_r", fallback_bcr)
        bcr_raw == IF HasKey(props, "building_r") THEN props["building_r"]
                   ELSE Num(c.fallback_bcr)
        has_far == /\ HasKey(props, "floor_r")
                   /\ props["floor_r"] \notin {PyNone, Str(<<>>)}
    IN  IF has_far
        THEN [bcr |-> _to_ratio(bcr_raw, c.fallback_bcr),
              far |-> _to_far(props["floor_r"], c.fallback_far),
              far_from |-> IF Unparseable(props["floor_r"])
                           THEN "attribute_default" ELSE "attribute",
              rule_called |-> FALSE, rule_failed |-> FALSE]
        ELSE Bind(call_far_rule(c.far_rule, m), LAMBDA rr :
                [bcr |-> _to_ratio(bcr_raw, c.fallback_bcr),
                 far |-> IF rr.raised THEN c.fallback_far ELSE rr.val,
                 far_from |-> IF rr.raised THEN "default" ELSE "rule",
                 rule_called |-> TRUE, rule_failed |-> rr.raised])

\* lines 141-144: the buildable region
buildable_region(poly, setback) ==
    Bind(IF setback # Zero THEN buffer_in(poly, setback) ELSE poly, LAMBDA buffered :
        LET fallback == is_empty(buffered) \/ LeEps(GeomArea(buffered))
        IN  Bind(_largest_polygon(IF fallback THEN poly ELSE buffered), LAMBDA lp :
                IF lp.raised
                THEN [raised |-> TRUE, err |-> lp.err, fallback |-> fallback]
                ELSE [raised |-> FALSE, poly |-> lp.val, fallback |-> fallback]))

\* lines 147-152: the footprint
derive_footprint(poly, buildable, bcr) ==
    Bind(_scale_to_area(buildable, DMul(MaxEps(poly.area), bcr)), LAMBDA scaled :
        IF scaled.ring = <<>> \/ LeEps(scaled.area)
        THEN [poly |-> buildable, fallback |-> TRUE]
        ELSE [poly |-> scaled, fallback |-> FALSE])

\* the quotient truncated, int(total // fp), instead of rounded up
FCeilDiv_truncating(total, fp) == DFloorDiv(total, MaxEps(Nominal(fp)))

\* lines 156-158: math.ceil(total / max(fp, 1e-9)) for a float area fp.  A
\* divisor one ulp below a decimal that divides the total exactly makes the
\* binary64 quotient exceed the integer (n * (1 + 2^-53) rounds up to the next
\* float above n), so the ceiling is one more.
FCeilDiv(total, fp) ==
    LET d == MaxEps(Nominal(fp))
        n == DCeilDiv(total, d)
        exact == Lift(total, d) % Lift(d, total) = 0
    IN  IF exact /\ total.m > 0 /\ ~LtEps(Nominal(fp))
        THEN (IF fp.u < 0 THEN n + 1 ELSE n)
        ELSE n

\* the floor count without the upper clamp of line 160
clamp_floors_no_max(raw, min_floors, max_floors) == MaxOf(raw, min_floors)

\* lines 158-160: the floor count
clamp_floors(raw, min_floors, max_floors) ==
    LET floors == MaxOf(raw, min_floors)
    IN  IF floors <= max_floors THEN floors ELSE max_floors

\* lines 155-162: floors and height
size_floors(plot_area, far, footprint_area, c) ==
    Bind(FCeilDiv(DMul(plot_area, far), footprint_area), LAMBDA raw :
        Bind(clamp_floors(raw, c.min_floors, c.max_floors), LAMBDA floors :
            [raw |-> raw, floors |-> floors,
             height |-> DMul(DInt(floors), c.floor_height)]))

NoEntry ==
    [metrics_called |-> FALSE, rule_called |-> FALSE, rule_failed |-> FALSE,
     far_from |-> "none", buildable_area |-> [m |-> 0, e |-> 0, u |-> 0], plot_area |-> Zero,
     setback_fallback |-> FALSE, scale_fallback |-> FALSE, raw_floors |-> 0,
     err |-> "none"]

\* lines 126-181, for the polygon poly of parcel p
massing_of(p, poly, c) ==
    Bind(parcel_metrics(poly), LAMBDA mr :
      IF mr.raised
      THEN [raised |-> TRUE,
            entry |-> [NoEntry EXCEPT !.metrics_called = TRUE, !.err = mr.err]]
      ELSE
      Bind(resolve_ratios(p.props, mr.val, c), LAMBDA rt :
      Bind(buildable_region(poly, c.setback), LAMBDA bd :
      IF bd.raised
      THEN [raised |-> TRUE,
            entry |-> [NoEntry EXCEPT !.metrics_called = TRUE,
                                      !.rule_called = rt.rule_called,
                                      !.rule_failed = rt.rule_failed,
                                      !.far_from = rt.far_from,
                                      !.plot_area = MaxEps(poly.area),
                                      !.setback_fallback = bd.fallback,
                                      !.err = bd.err]]
      ELSE
      Bind(derive_footprint(poly, bd.poly, rt.bcr), LAMBDA fp :
      Bind(size_floors(MaxEps(poly.area), rt.far, FloatArea(fp.poly), c), LAMBDA sz :
      Bind(extrude_polygon(fp.poly, sz.height), LAMBDA ex :
        LET m == mr.val
            entry == [metrics_called |-> TRUE, rule_called |-> rt.rule_called,
                      rule_failed |-> rt.rule_failed, far_from |-> rt.far_from,
                      buildable_area |-> FloatArea(bd.poly),
                      plot_area |-> MaxEps(poly.area),
                      setback_fallback |-> bd.fallback,
                      scale_fallback |-> fp.fallback, raw_floors |-> sz.raw,
                      err |-> IF ex.raised THEN ex.err ELSE "none"]
        IN  IF ex.raised
            THEN [raised |-> TRUE, entry |-> entry]
            ELSE [raised |-> FALSE, entry |-> entry,
                  row |-> [id |-> p.id, area |-> m.area, width |-> m.width,
                           depth |-> m.depth, aspect_ratio |-> m.aspect_ratio,
                           building_r |-> rt.bcr, floor_r |-> rt.far,
                           setback |-> c.setback,
                           footprint_area |-> FloatArea(fp.poly),
                           floors |-> sz.floors,
                           floor_height |-> c.floor_height,
                           height |-> sz.height],
                  building |-> [id |-> p.id, footprint |-> fp.poly,
                                height |-> sz.height, faces |-> ex.val]]))))))

\* lines 122-181: one iteration of the loop
massing(p, c) ==
    Bind(_largest_polygon(p.geom), LAMBDA lp :
        IF lp.raised
        THEN [raised |-> TRUE, entry |-> [NoEntry EXCEPT !.err = lp.err]]
        ELSE massing_of(p, lp.val, c))

-----------------------------------------------------------------------------
(* volume_generator.compute_buildable_volume, the single-parcel variant *)

\* the floors rounded up, as run_batch does
compute_buildable_volume_ceiling(polygon, far, setback, floor_height, min_floors) ==
    IF DLe(far, Zero) THEN Raised("FAR must be positive")
    ELSE IF DLe(floor_height, Zero) THEN Raised("floor_height must be positive")
    ELSE IF min_floors < 1 THEN Raised("min_floors must be >= 1")
    ELSE IF polygon.type = "None" \/ is_empty(polygon)
    THEN Raised("Input parcel geometry is empty")
    ELSE Bind(IF setback # Zero THEN buffer_in(polygon, setback) ELSE polygon,
              LAMBDA buildable :
        IF is_empty(buildable) \/ LeEps(GeomArea(buildable))
        THEN Raised("Setback too large: buildable footprint becomes empty")
        ELSE LET floors == MaxOf(DCeilDiv(DMul(GeomArea(polygon), far),
                                          GeomArea(buildable)), min_floors)
             IN  Ok([buildable_polygon |-> buildable,
                     height |-> DMul(DInt(floors), floor_height),
                     floor_count |-> floors,
                     buildable_area |-> GeomArea(buildable)]))

\* lines 161-202
compute_buildable_volume(polygon, far, setback, floor_height, min_floors) ==
    IF DLe(far, Zero) THEN Raised("FAR must be positive")
    ELSE IF DLe(floor_height, Zero) THEN Raised("floor_height must be positive")
    ELSE IF min_floors < 1 THEN Raised("min_floors must be >= 1")
    ELSE IF polygon.type = "None" \/ is_empty(polygon)
    THEN Raised("Input parcel geometry is empty")
    ELSE Bind(IF setback # Zero THEN buffer_in(polygon, setback) ELSE polygon,
              LAMBDA buildable :
        IF is_empty(buildable) \/ LeEps(GeomArea(buildable))
        THEN Raised("Setback too large: buildable footprint becomes empty")
        ELSE LET plot_area == GeomArea(polygon)
                 buildable_area == GeomArea(buildable)
                 total_floor_area == DMul(plot_area, far)
                 \* int(total_floor_area // buildable_area), then max
                 floors == MaxOf(DFloorDiv(total_floor_area, buildable_area),
                                 min_floors)
             IN  Ok([buildable_polygon |-> buildable,
                     height |-> DMul(DInt(floors), floor_height),
                     floor_count |-> floors,
                     buildable_area |-> buildable_area]))

-----------------------------------------------------------------------------
(* Inputs of run_batch *)

MaxParcels == 2

Line == Polygon(<<Pt(0, 0), Pt(1, 1), Pt(2, 2), Pt(0, 0)>>)

Geoms ==
    [R6x4 |-> box(0, 0, 6, 4),
     R60x40 |-> box(0, 0, 60, 40),
     LINE |-> Line,
     MULTI |-> MultiPolygon(<<Line, box(0, 0, 6, 4), box(10, 0, 12, 2)>>),
     TWOSQ |-> TwoSquares(5, 9, 1, 1)]

NoProps == [k \in {} |-> PyNone]

PropsChoices ==
    {NoProps,
     [building_r |-> Str(<<"6", "0", "%">>), floor_r |-> Num(DInt(3))],
     [building_r |-> Num(Zero), floor_r |-> Str(<<>>)],
     [building_r |-> Num(DInt(100)), floor_r |-> Str(<<"%">>)],
     [building_r |-> PyNone, floor_r |-> Num(Zero)]}

\* the id of a parcel names its geometry.  TWOSQ is drawn in units of 1e-5:
\* two squares of side 9e-5 joined by a corridor 1e-5 high, area 1.63e-8; what
\* its inward offset leaves depends only on the setback relative to its size.
ParcelChoices ==
    {[id |-> g, geom |-> Geoms[g], props |-> pr] :
        g \in {"R6x4", "R60x40"}, pr \in PropsChoices}
    \cup {[id |-> g, geom |-> Geoms[g], props |-> NoProps] : g \in {"LINE", "MULTI"}}
    \cup {[id |-> "TWOSQ", geom |-> Geoms["TWOSQ"],
           props |-> [building_r |-> Num(DInt(100)), floor_r |-> Str(<<"%">>)]]}

ParcelLists == UNION {[1..n -> ParcelChoices] : n \in 0..MaxParcels}

\* run_batch's keyword defaults (lines 107-112) are setback 0.5, floor height
\* 3.6, floors 1..60, coverage 0.6, floor-area ratio 2.5.  The setback is a
\* whole number here, so that an inset box keeps integer corners.
ValidConfigs ==
    [setback : {Zero, DInt(3)}, floor_height : {Dec(36, 1)}, min_floors : {1, 2},
     max_floors : {4, 60}, fallback_bcr : {Dec(6, 1)},
     fallback_far : {Dec(25, 1), DInt(25)},
     far_rule : {"far_rule_area", "raising"}]
    \cup [setback : {Zero, DInt(3)}, floor_height : {Dec(36, 1)}, min_floors : {1},
          max_floors : {60}, fallback_bcr : {Dec(6, 1)},
          fallback_far : {Dec(25, 1)}, far_rule : {"far_rule_frontage"}]

BaseConfigs == {c \in ValidConfigs : c.setback = DInt(3) /\ c.max_floors = 4
                                       /\ c.min_floors = 1
                                       /\ c.far_rule # "far_rule_frontage"}

InvalidConfigs ==
    UNION {{[c EXCEPT !.floor_height = Zero],
            [c EXCEPT !.floor_height = Dec(0 - 36, 1)],
            [c EXCEPT !.fallback_far = Zero],
            [c EXCEPT !.min_floors = 0],
            [c EXCEPT !.min_floors = 5]} : c \in BaseConfigs}

\* a setback of 3e-5, which leaves of each square of TWOSQ a square of side
\* 3e-5 (area 9e-10)
MicroConfigs == {[c EXCEPT !.setback = Dec(3, 5)] : c \in BaseConfigs}

Configs == ValidConfigs \cup InvalidConfigs \cup MicroConfigs

\* the setback is a whole number of length units of every parcel of the list
SetbackFits(c, ps) ==
    c.setback.e = 0 \/ \A i \in DOMAIN ps : ps[i].id = "TWOSQ"

\* what section 7 calls a configuration without error
ValidConfig(c) ==
    /\ DGt(c.floor_height, Zero)
    /\ DGt(c.fallback_far, Zero)
    /\ c.min_floors >= 1
    /\ c.max_floors >= c.min_floors

NormIdle == [pc |-> "idle"]
ExtIdle == [pc |-> "idle"]
CfgIdle == [far_rule |-> "idle"]
VolIdle == [pc |-> "idle"]

\* A GeoJSON feature after shape(): its geometry (NoGeom when the feature has
\* none) and its properties
Feature(g, pr) == [geometry |-> g, properties |-> pr]

FeatureChoices ==
    {Feature(Geoms.R6x4, [id |-> "R6x4"]),
     Feature(Geoms.R6x4, NoProps),
     Feature(Line, [id |-> "LINE"]),
     Feature(Geoms.MULTI, [id |-> "MULTI"]),
     Feature(MultiPolygon(<<Line, Line>>), [id |-> "LINE"]),
     Feature(LineString, [id |-> "LINE"]),
     Feature(NoGeom, NoProps)}

FeatureLists == UNION {[1..n -> FeatureChoices] : n \in 0..MaxParcels}

\* str(i) of a feature index
StrOfIndex(i) == <<"0", "1", "2", "3", "4">>[i + 1]

\* io_geojson.load_parcels_geojson, lines 22-49: what feature f at index i
\* (from 0) adds to the output
load_feature(f, i) ==
    LET g == f.geometry
        props == f.properties
        poly == IF g.type = "Polygon" THEN g
                ELSE IF g.geoms = <<>> THEN EmptyPolygon
                ELSE g.geoms[ArgMaxArea(g.geoms)]
        pid == IF HasKey(props, "id") THEN props["id"] ELSE StrOfIndex(i)
    IN  IF g.type \notin {"Polygon", "MultiPolygon"} THEN <<>>
        ELSE IF poly.ring = <<>> \/ LeEps(poly.area) THEN <<>>
        ELSE <<[id |-> pid, geom |-> poly, props |-> props]>>

RECURSIVE load_from(_, _)
load_from(features, k) ==
    IF k > Len(features) THEN <<>>
    ELSE load_feature(features[k], k - 1) \o load_from(features, k + 1)

\* the list load_parcels_geojson returns; <<>> stands for its ValueError
load_parcels_geojson(features) == load_from(features, 1)

\* run_batch called on a list the caller built, not on a loaded file
NoFile == [given |-> FALSE]

-----------------------------------------------------------------------------
(* run_batch as a state machine: the state at the call, one step per loop    *)
(* iteration, and the return.  A raise leaves the loop: status "raised".     *)

\* run_batch either gets a list its caller built, or (run_b.main) the list
\* load_parcels_geojson makes of a file's features
Init ==
    /\ norm = NormIdle
    /\ ext = ExtIdle
    /\ vol = VolIdle
    /\ idx = 1
    /\ rows = <<>>
    /\ buildings = <<>>
    /\ log = <<>>
    /\ \/ /\ feats = NoFile
          /\ cfg \in Configs
          /\ parcels \in {ps \in ParcelLists : SetbackFits(cfg, ps)}
          /\ status = "running"
       \/ /\ feats \in {[given |-> TRUE, features |-> fs] : fs \in FeatureLists}
          /\ cfg \in BaseConfigs
          /\ parcels = <<>>
          /\ status = "loading"

\* run_b.main line 19: the parcels are loaded from the file; a file without a
\* usable polygon raises ValueError and run_batch is never called
Load ==
    /\ status = "loading"
    /\ \E out \in {load_parcels_geojson(feats.features)} :
           IF out = <<>>
           THEN /\ status' = "raised"
                /\ UNCHANGED parcels
           ELSE /\ status' = "running"
                /\ parcels' = out
    /\ UNCHANGED <<norm, ext, vol, feats, cfg, idx, rows, buildings, log>>

\* a parcel that raises is skipped and the loop goes on
ProcessParcel_skipping ==
    /\ status = "running"
    /\ idx <= Len(parcels)
    /\ \E r \in {massing(parcels[idx], cfg)} :
           /\ log' = Append(log, r.entry)
           /\ idx' = idx + 1
           /\ status' = status
           /\ IF r.raised
              THEN UNCHANGED <<rows, buildings>>
              ELSE /\ rows' = Append(rows, r.row)
                   /\ buildings' = Append(buildings, r.building)
    /\ UNCHANGED <<norm, ext, vol, feats, cfg, parcels>>

\* with state shared across iterations: a parcel without building_r inherits
\* the coverage ratio of the row before it
ProcessParcel_carrying ==
    /\ status = "running"
    /\ idx <= Len(parcels)
    /\ \E r \in {massing(parcels[idx],
                          IF rows = <<>> THEN cfg
                          ELSE [cfg EXCEPT !.fallback_bcr =
                                               rows[Len(rows)].building_r])} :
           /\ log' = Append(log, r.entry)
           /\ IF r.raised
              THEN /\ status' = "raised"
                   /\ UNCHANGED <<rows, buildings, idx>>
              ELSE /\ rows' = Append(rows, r.row)
                   /\ buildings' = Append(buildings, r.building)
                   /\ idx' = idx + 1
                   /\ status' = status
    /\ UNCHANGED <<norm, ext, vol, feats, cfg, parcels>>

ProcessParcel ==
    /\ status = "running"
    /\ idx <= Len(parcels)
    /\ \E r \in {massing(parcels[idx], cfg)} :
           /\ log' = Append(log, r.entry)
           /\ IF r.raised
              THEN /\ status' = "raised"
                   /\ UNCHANGED <<rows, buildings, idx>>
              ELSE /\ rows' = Append(rows, r.row)
                   /\ buildings' = Append(buildings, r.building)
                   /\ idx' = idx + 1
                   /\ status' = status
    /\ UNCHANGED <<norm, ext, vol, feats, cfg, parcels>>

ReturnBatch ==
    /\ status = "running"
    /\ idx > Len(parcels)
    /\ status' = "returned"
    /\ UNCHANGED <<norm, ext, vol, feats, cfg, parcels, idx, rows, buildings, log>>

Next == Load \/ ProcessParcel \/ ReturnBatch

Spec == Init /\ [][Next]_vars

-----------------------------------------------------------------------------
(* The ratio normalisers applied to one raw value *)

MaxLen == 4

Strings == UNION {[1..n -> Alphabet] : n \in 0..MaxLen}

NumInputs ==
    {Dec(0 - 3, 1), Zero, Dec(6, 1), One, Dec(12, 1), Dec(25, 1), Ten,
     Dec(105, 1), DInt(60), DInt(100), DInt(120), DInt(180)}

RawInputs ==
    {PyNone} \cup {Num(d) : d \in NumInputs} \cup {Str(s) : s \in Strings}

\* defaults the configuration allows: coverage in (0, 1], floor-area ratio > 0
RatioDefaults == {Dec(5, 2), Dec(6, 1), One}
FarDefaults == {Dec(25, 1), Ten, DInt(25)}

InitNorm ==
    /\ norm \in {[pc |-> "call", x |-> x] : x \in RawInputs}
    /\ ext = ExtIdle
    /\ cfg = CfgIdle
    /\ vol = VolIdle
    /\ feats = NoFile
    /\ parcels = <<>>
    /\ idx = 0
    /\ rows = <<>>
    /\ buildings = <<>>
    /\ status = "idle"
    /\ log = <<>>

ToRatio ==
    /\ norm.pc = "call"
    /\ \E d \in RatioDefaults :
           norm' = [pc |-> "done", fn |-> "_to_ratio", x |-> norm.x,
                    default |-> d, out |-> _to_ratio(norm.x, d)]
    /\ UNCHANGED <<ext, vol, feats, cfg, parcels, idx, rows, buildings, status, log>>

ToFar ==
    /\ norm.pc = "call"
    /\ \E d \in FarDefaults :
           norm' = [pc |-> "done", fn |-> "_to_far", x |-> norm.x,
                    default |-> d, out |-> _to_far(norm.x, d)]
    /\ UNCHANGED <<ext, vol, feats, cfg, parcels, idx, rows, buildings, status, log>>

NextNorm == ToRatio \/ ToFar

SpecNorm == InitNorm /\ [][NextNorm]_vars

-----------------------------------------------------------------------------
(* extrude_polygon applied to one geometry and height *)

MaxVerts == 4

Grid == {Pt(x, y) : x \in 0..2, y \in 0..1}

\* the exterior rings a non-empty Polygon can hold: at least three
\* coordinates (repeats allowed) and the closing one
Rings == {Append(r, r[1]) : r \in UNION {[1..n -> Grid] : n \in 3..MaxVerts}}

PartChoices ==
    {EmptyPolygon, Line, box(0, 0, 1, 1), box(0, 0, 2, 1),
     Polygon(<<Pt(0, 0), Pt(2, 0), Pt(0, 1), Pt(0, 0)>>)}

ExtGeoms ==
    {NoGeom, LineString, EmptyPolygon, MultiPolygon(<<>>)}
    \cup {Polygon(r) : r \in Rings}
    \cup {MultiPolygon(ps) : ps \in UNION {[1..n -> PartChoices] : n \in 1..2}}

Heights == {Dec(0 - 36, 1), Zero, Dec(36, 1), DInt(18)}

InitExtrude ==
    /\ ext \in {[pc |-> "call", geom |-> g, height |-> h] :
                   g \in ExtGeoms, h \in Heights}
    /\ norm = NormIdle
    /\ cfg = CfgIdle
    /\ vol = VolIdle
    /\ feats = NoFile
    /\ parcels = <<>>
    /\ idx = 0
    /\ rows = <<>>
    /\ buildings = <<>>
    /\ status = "idle"
    /\ log = <<>>

Extrude ==
    /\ ext.pc = "call"
    /\ ext' = [pc |-> "done", geom |-> ext.geom, height |-> ext.height,
               out |-> extrude_polygon(ext.geom, ext.height)]
    /\ UNCHANGED <<norm, vol, feats, cfg, parcels, idx, rows, buildings, status, log>>

NextExtrude == Extrude

SpecExtrude == InitExtrude /\ [][NextExtrude]_vars

-----------------------------------------------------------------------------
(* main.py: compute_buildable_volume on one parcel, then extrude_polygon on   *)
(* the result.  main itself passes box(0, 0, 60, 40), far 3.0, setback 3.0,   *)
(* floor height 3.6 and min_floors 1.                                         *)

VolGeoms == {Geoms.R60x40, Geoms.R6x4, Line, EmptyPolygon, NoGeom}
VolFars == {Zero, Dec(18, 1), Dec(25, 1), DInt(3), DInt(100)}
VolSetbacks == {Zero, DInt(3)}
VolFloorHeights == {Zero, Dec(36, 1)}
VolMinFloors == {0, 1, 2, 5}

InitVolume ==
    /\ norm = NormIdle
    /\ ext = ExtIdle
    /\ vol \in [pc : {"call"}, polygon : VolGeoms, far : VolFars,
                 setback : VolSetbacks, floor_height : VolFloorHeights,
                 min_floors : VolMinFloors]
    /\ feats = NoFile
    /\ cfg = CfgIdle
    /\ parcels = <<>>
    /\ idx = 0
    /\ rows = <<>>
    /\ buildings = <<>>
    /\ status = "idle"
    /\ log = <<>>

\* main lines 17-23; a raise ends main
ComputeVolume ==
    /\ vol.pc = "call"
    /\ \E r \in {compute_buildable_volume(vol.polygon, vol.far, vol.setback,
                                            vol.floor_height, vol.min_floors)} :
           vol' = [pc |-> "done", polygon |-> vol.polygon, far |-> vol.far,
                   setback |-> vol.setback, floor_height |-> vol.floor_height,
                   min_floors |-> vol.min_floors, out |-> r]
    /\ UNCHANGED <<norm, ext, feats, cfg, parcels, idx, rows, buildings, status, log>>

\* main line 25
ExtrudeVolume ==
    /\ vol.pc = "done"
    /\ ~vol.out.raised
    /\ ext.pc = "idle"
    /\ ext' = [pc |-> "done", geom |-> vol.out.val.buildable_polygon,
               height |-> vol.out.val.height,
               out |-> extrude_polygon(vol.out.val.buildable_polygon,
                                       vol.out.val.height)]
    /\ UNCHANGED <<norm, vol, feats, cfg, parcels, idx, rows, buildings, status, log>>

NextVolume == ComputeVolume \/ ExtrudeVolume

SpecVolume == InitVolume /\ [][NextVolume]_vars

-----------------------------------------------------------------------------
(* Properties of run_batch (specification Spec) *)

\* the configuration C1 calls valid
SizerConfigOk ==
    /\ DGt(cfg.floor_height, Zero)
    /\ cfg.min_floors >= 1
    /\ cfg.max_floors >= cfg.min_floors

\* C1: under a configuration with floor_height > 0, min_floors >= 1 and
\* max_floors >= min_floors, every emitted row has
\* min_floors <= floors <= max_floors and height = floors * floor_height > 0.
C1_FloorsClampedHeightExact ==
    SizerConfigOk =>
        \A i \in DOMAIN rows :
            /\ cfg.min_floors <= rows[i].floors
            /\ rows[i].floors <= cfg.max_floors
            /\ rows[i].height = DMul(DInt(rows[i].floors), cfg.floor_height)
            /\ DGt(rows[i].height, Zero)

\* a row whose raw floor count was cut by the maximum, and one raised to the
\* minimum
C1_Witness ==
    /\ SizerConfigOk
    /\ \E i \in DOMAIN rows :
           log[i].raw_floors > cfg.max_floors /\ rows[i].floors = cfg.max_floors
    /\ \E i \in DOMAIN rows :
           log[i].raw_floors < cfg.min_floors /\ rows[i].floors = cfg.min_floors

\* parcel_area * coverage_ratio of row i
TargetArea(i) == DMul(log[i].plot_area, rows[i].building_r)

\* a <= b + 1e-9
LeWithEps(a, b) == LeEps(DSub(a, b))

\* C2 as stated: under a valid configuration every row's footprint area is at most the buildable region's
\* area and at most parcel_area * coverage_ratio + epsilon, for every coverage
\* ratio in [0, 1], 0 included.
C2_Original ==
    ValidConfig(cfg) => \A i \in DOMAIN rows :
        /\ DLe(rows[i].footprint_area, log[i].buildable_area)
        /\ LeWithEps(rows[i].footprint_area, TargetArea(i))

\* C2 (amended): every row's footprint area is at most the buildable region's
\* area; it is at most parcel_area * coverage_ratio + epsilon whenever the
\* scaled region was kept (the fallback of line 152 was not taken), which is
\* when parcel_area * coverage_ratio > 1e-9; otherwise the footprint is the
\* whole buildable region.
C2_FootprintBounded ==
    \A i \in DOMAIN rows :
        /\ DLe(rows[i].footprint_area, log[i].buildable_area)
        /\ log[i].scale_fallback <=> LeEps(TargetArea(i))
        /\ ~log[i].scale_fallback => LeWithEps(rows[i].footprint_area, TargetArea(i))
        /\ log[i].scale_fallback => rows[i].footprint_area = log[i].buildable_area

\* a footprint shrunk to the coverage target inside an inset region, and one
\* capped by the region because the target exceeds it
C2_Witness ==
    /\ \E i \in DOMAIN rows :
           /\ ~log[i].setback_fallback
           /\ DGt(cfg.setback, Zero)
           /\ DLt(rows[i].footprint_area, log[i].buildable_area)
           /\ Nominal(rows[i].footprint_area) = TargetArea(i)
    /\ \E i \in DOMAIN rows :
           /\ ~log[i].scale_fallback
           /\ DLt(log[i].buildable_area, TargetArea(i))
           /\ rows[i].footprint_area = log[i].buildable_area

\* C3: when run_batch returns there is one row and one building per parcel, in
\* input order: equal lengths, and row i and building i carry parcel i's id
\* and the same height and footprint area.
C3_OneRowOneBuildingPerParcel ==
    status = "returned" =>
        /\ Len(rows) = Len(parcels)
        /\ Len(buildings) = Len(parcels)
        /\ \A i \in DOMAIN parcels :
               /\ rows[i].id = parcels[i].id
               /\ buildings[i].id = parcels[i].id
               /\ rows[i].height = buildings[i].height
               /\ rows[i].footprint_area = FloatArea(buildings[i].footprint)

\* a returned batch of two parcels with different ids
C3_Witness ==
    /\ status = "returned"
    /\ Len(parcels) = 2
    /\ parcels[1].id # parcels[2].id
    /\ rows[2].id = parcels[2].id

\* the parcel carries a floor_r attribute (line 131)
CarriesFar(p) ==
    HasKey(p.props, "floor_r") /\ p.props["floor_r"] \notin {PyNone, Str(<<>>)}

\* the value the default resolves to when _to_far is handed it
FarOfDefault == IF DGt(cfg.fallback_far, Ten) THEN DDiv100(cfg.fallback_far)
                ELSE cfg.fallback_far

\* C4 as stated, under a valid configuration: attribute, else rule, else
\* default; the default is used only
\* for a parcel whose rule function was invoked and failed.
C4_Original ==
    ValidConfig(cfg) => \A i \in DOMAIN rows :
        /\ CarriesFar(parcels[i]) => ~log[i].rule_called
        /\ ~CarriesFar(parcels[i]) => log[i].rule_called
        /\ log[i].far_from \in {"default", "attribute_default"} =>
               log[i].rule_called /\ log[i].rule_failed

\* C4 (amended): the normalised floor_r attribute is used when the parcel
\* carries one (not None, not ""), and then the rule is not invoked; otherwise
\* the rule is invoked and its value used, or fallback_far when it fails.  The
\* default is also what an unparseable attribute normalises to (fallback_far,
\* divided by 100 when above 10), without the rule being invoked.  A failing
\* rule never aborts the batch.
C4_FarFallbackChain ==
    /\ \A i \in DOMAIN rows :
           LET p == parcels[i]
               e == log[i]
           IN  /\ CarriesFar(p) =>
                      /\ ~e.rule_called
                      /\ Unparseable(p.props["floor_r"]) => rows[i].floor_r = FarOfDefault
                      /\ p.props["floor_r"].t = "num" =>
                             rows[i].floor_r =
                                 DMax(Zero, IF DGt(p.props["floor_r"].v, Ten)
                                            THEN DDiv100(p.props["floor_r"].v)
                                            ELSE p.props["floor_r"].v)
               /\ ~CarriesFar(p) =>
                      /\ e.rule_called
                      /\ e.rule_failed <=> cfg.far_rule = "raising"
                      /\ e.rule_failed => rows[i].floor_r = cfg.fallback_far
                      /\ cfg.far_rule = "far_rule_area" =>
                             rows[i].floor_r = far_rule_area([area |-> rows[i].area])
               /\ e.far_from \in {"default", "attribute_default"} =>
                      \/ e.rule_called /\ e.rule_failed
                      \/ CarriesFar(p) /\ Unparseable(p.props["floor_r"])
    /\ \A i \in DOMAIN log :
           log[i].rule_failed /\ ValidConfig(cfg) => i \in DOMAIN rows

\* a row whose ratio is the default because the attribute is unparseable (the
\* rule not invoked), next to a row whose rule failed
C4_Witness ==
    /\ \E i \in DOMAIN rows :
           /\ log[i].far_from = "attribute_default"
           /\ ~log[i].rule_called
           /\ rows[i].floor_r = FarOfDefault
    /\ \E i \in DOMAIN rows :
           /\ log[i].rule_failed
           /\ rows[i].floor_r = cfg.fallback_far

\* C5 as stated: with a configuration error run_batch raises at batch start,
\* before any parcel is processed, and never returns.
C5_ConfigErrorAborts ==
    ~ValidConfig(cfg) => status # "returned" /\ log = <<>> /\ rows = <<>>

-----------------------------------------------------------------------------
(* Properties of the ratio normalisers (specification SpecNorm) *)

RatioDone == norm.pc = "done" /\ norm.fn = "_to_ratio"
FarDone == norm.pc = "done" /\ norm.fn = "_to_far"

Percent60 == Str(<<"6", "0", "%">>)
Percent180 == Str(<<"1", "8", "0", "%">>)

\* C6 as stated: _to_ratio maps 60 to 0.6, "60%" to 0.6, 1.2 to 1.0 and -0.3
\* to 0.0.
C6_Original ==
    RatioDone =>
        /\ norm.x = Num(DInt(60)) => norm.out = Dec(6, 1)
        /\ norm.x = Percent60 => norm.out = Dec(6, 1)
        /\ norm.x = Num(Dec(12, 1)) => norm.out = One
        /\ norm.x = Num(Dec(0 - 3, 1)) => norm.out = Zero

\* C6 (amended): _to_ratio maps 60 to 0.6, "60%" to 0.6 and -0.3 to 0.0; it
\* maps 1.2 to 0.012, since every value above 1.0 is read as a percentage
\* and divided by 100 before the clamp; only values above 100 (120, say) are
\* clamped to 1.0.
C6_RatioExamples ==
    RatioDone =>
        /\ norm.x = Num(DInt(60)) => norm.out = Dec(6, 1)
        /\ norm.x = Percent60 => norm.out = Dec(6, 1)
        /\ norm.x = Num(Dec(12, 1)) => norm.out = Dec(12, 3)
        /\ norm.x = Num(DInt(120)) => norm.out = One
        /\ norm.x = Num(Dec(0 - 3, 1)) => norm.out = Zero

\* _to_ratio has been applied to 1.2
C6_Witness == RatioDone /\ norm.x = Num(Dec(12, 1)) /\ norm.out = Dec(12, 3)

\* the value _to_number parses from the input (the default when it cannot)
ParsedValue == _to_number(norm.x, norm.default)

\* C7: for the parsed value v, _to_far returns v / 100 when v > 10, v when
\* 0 <= v <= 10 and 0 when v < 0, with no upper bound; "180%" gives 1.8, 180
\* gives 1.8 and 2.5 gives 2.5.
C7_FarNormalised ==
    FarDone =>
        /\ DGt(ParsedValue, Ten) => norm.out = DDiv100(ParsedValue)
        /\ DLe(Zero, ParsedValue) /\ DLe(ParsedValue, Ten) => norm.out = ParsedValue
        /\ DLt(ParsedValue, Zero) => norm.out = Zero
        /\ norm.x.t = "num" /\ DLe(norm.x.v, Ten) /\ DLe(Zero, norm.x.v) =>
               norm.out = norm.x.v
        /\ norm.x = Percent180 => norm.out = Dec(18, 1)
        /\ norm.x = Num(DInt(180)) => norm.out = Dec(18, 1)
        /\ norm.x = Num(Dec(25, 1)) => norm.out = Dec(25, 1)

\* _to_far has been applied to "180%"
C7_Witness == FarDone /\ norm.x = Percent180 /\ norm.out = Dec(18, 1)

\* C8 as stated: for every unparseable or missing input both normalisers
\* return exactly the default they were given.
C8_UnparseableGivesDefault ==
    norm.pc = "done" /\ Unparseable(norm.x) => norm.out = norm.default

-----------------------------------------------------------------------------
(* Properties of extrude_polygon (specification SpecExtrude) *)

ExtDone == ext.pc = "done"

\* the exterior ring of the geometry without its closing coordinate
Coords2d == SubSeq(ext.geom.ring, 1, Len(ext.geom.ring) - 1)

\* C9: for a polygon whose ring has n >= 3 vertices and a height h > 0 the
\* result is n + 2 faces: the n vertices in order at z = 0, the same vertices
\* reversed at z = h, then for each i the quadrilateral bottom[i],
\* bottom[i+1], top[i+1], top[i] with indices modulo n; every face has at
\* least 3 points.
C9_PrismFaces ==
    ExtDone /\ ext.geom.type = "Polygon" /\ ext.geom.ring # <<>>
            /\ Len(Coords2d) >= 3 /\ DGt(ext.height, Zero) =>
        LET n == Len(Coords2d)
            faces == ext.out.val
        IN  /\ ~ext.out.raised
            /\ Len(faces) = n + 2
            /\ Len(faces[1]) = n
            /\ \A k \in 1..n : faces[1][k] = [p |-> Coords2d[k], z |-> Zero]
            /\ Len(faces[2]) = n
            /\ \A k \in 1..n :
                   faces[2][k] = [p |-> Coords2d[n + 1 - k], z |-> ext.height]
            /\ \A i \in 1..n :
                   faces[2 + i] =
                       << [p |-> Coords2d[i], z |-> Zero],
                          [p |-> Coords2d[(i % n) + 1], z |-> Zero],
                          [p |-> Coords2d[(i % n) + 1], z |-> ext.height],
                          [p |-> Coords2d[i], z |-> ext.height] >>
            /\ \A f \in DOMAIN faces : Len(faces[f]) >= 3

\* a quadrilateral footprint extruded into six faces
C9_Witness ==
    /\ ExtDone
    /\ ext.geom = box(0, 0, 2, 1)
    /\ DGt(ext.height, Zero)
    /\ ~ext.out.raised
    /\ Len(ext.out.val) = 6

\* the number of distinct vertices of the exterior ring
DistinctVertices == Cardinality({ext.geom.ring[k] : k \in DOMAIN ext.geom.ring})

\* None, or an empty geometry
NoneOrEmpty == ext.geom.type = "None" \/ is_empty(ext.geom)

\* C10 as stated: extrude_polygon raises whenever height <= 0, the geometry
\* is empty, or the exterior ring has fewer than 3 distinct vertices.
C10_Original ==
    ExtDone =>
        /\ DLe(ext.height, Zero) => ext.out.raised
        /\ NoneOrEmpty => ext.out.raised
        /\ ext.geom.type = "Polygon" /\ DistinctVertices < 3 => ext.out.raised

\* C10 (amended): extrude_polygon raises whenever height <= 0, the geometry
\* is None or empty, or the exterior ring has fewer than 3 coordinates once
\* the closing one is dropped (repeated vertices count: a ring of 3
\* coordinates with fewer than 3 distinct vertices is extruded); when it
\* returns, the face list is never empty or partial: it has n + 2 >= 5 faces.
C10_RaisesOnBadInput ==
    ExtDone =>
        /\ DLe(ext.height, Zero) => ext.out.raised
        /\ NoneOrEmpty => ext.out.raised
        /\ ext.geom.type = "Polygon" /\ Len(ext.geom.ring) - 1 < 3 => ext.out.raised
        /\ ~ext.out.raised =>
               /\ Len(ext.out.val) >= 5
               /\ ext.geom.type = "Polygon" => Len(ext.out.val) = Len(ext.geom.ring) + 1

\* a well-formed polygon refused because the height is not positive
C10_Witness ==
    /\ ExtDone
    /\ ext.geom = box(0, 0, 2, 1)
    /\ DLe(ext.height, Zero)
    /\ ext.out.raised

-----------------------------------------------------------------------------
(* The worked example of the 60 x 40 parcel *)

\* row i is the example: the 60 x 40 parcel with coverage ratio 0.6 and
\* floor-area ratio 3.0 under setback 3.0, floor height 3.6 and floor limits
\* that leave a count of 5 alone
IsExampleRow(i) ==
    /\ parcels[i].id = "R60x40"
    /\ rows[i].area = DInt(2400)
    /\ rows[i].building_r = Dec(6, 1)
    /\ rows[i].floor_r = DInt(3)
    /\ cfg.setback = DInt(3)
    /\ cfg.floor_height = Dec(36, 1)
    /\ cfg.min_floors <= 5
    /\ cfg.max_floors >= 5

\* C11: the 60 x 40 parcel (area 2400) with coverage 0.6, floor-area ratio
\* 3.0, setback 3.0 and floor height 3.6 has a setback region of area 1836, a
\* footprint of area exactly 1440, a total permitted floor area of 7200,
\* floor_count 5 and height 18.0.
C11_WorkedExample ==
    \A i \in DOMAIN rows :
        IsExampleRow(i) =>
            /\ log[i].buildable_area = [m |-> 1836, e |-> 0, u |-> 0]
            /\ DMul(log[i].plot_area, rows[i].floor_r) = DInt(7200)
            /\ rows[i].footprint_area = [m |-> 1440, e |-> 0, u |-> 0]
            /\ rows[i].floors = 5
            /\ rows[i].height = DInt(18)

\* what run_batch emits for the example: the footprint's area is one ulp
\* below 1440, the quotient 7200 / area exceeds 5, and the row has 6 floors
\* and height 21.6
C11_ExampleAsComputed ==
    \A i \in DOMAIN rows :
        IsExampleRow(i) =>
            /\ log[i].buildable_area = [m |-> 1836, e |-> 0, u |-> 0]
            /\ rows[i].footprint_area = [m |-> 1440, e |-> 0, u |-> 0 - 1]
            /\ log[i].raw_floors = 6
            /\ rows[i].floors = 6
            /\ rows[i].height = Dec(216, 1)

C11_ExampleReached == \E i \in DOMAIN rows : IsExampleRow(i)

-----------------------------------------------------------------------------
(* Ranges of the resolved ratios *)

\* C12: in every emitted row the coverage ratio lies in [0, 1] and the
\* floor-area ratio is strictly greater than 0, whichever source supplied it
\* (checked under a configuration without error).
C12_RatiosInRange ==
    ValidConfig(cfg) =>
        \A i \in DOMAIN rows :
            /\ DLe(Zero, rows[i].building_r)
            /\ DLe(rows[i].building_r, One)
            /\ DGt(rows[i].floor_r, Zero)

\* what holds of every emitted row: the coverage ratio in [0, 1], the
\* floor-area ratio not negative, and positive unless the parcel's own
\* floor_r attribute supplied it
C12_RatiosAsComputed ==
    ValidConfig(cfg) =>
        \A i \in DOMAIN rows :
            /\ DLe(Zero, rows[i].building_r)
            /\ DLe(rows[i].building_r, One)
            /\ DLe(Zero, rows[i].floor_r)
            /\ log[i].far_from # "attribute" => DGt(rows[i].floor_r, Zero)

\* a row whose floor-area ratio is 0, from the attribute floor_r = 0
C12_ZeroFarRow ==
    /\ ValidConfig(cfg)
    /\ \E i \in DOMAIN rows :
           /\ log[i].far_from = "attribute"
           /\ rows[i].floor_r = Zero
           /\ rows[i].floors = cfg.min_floors

-----------------------------------------------------------------------------
(* Degenerate parcels *)

\* a polygon of zero area (area <= 1e-9)
Degenerate(geom) == geom.type = "Polygon" /\ LeEps(geom.area)

\* C13: a degenerate parcel is rejected before metrics extraction:
\* parcel_metrics is never called on it, whether the parcels were loaded from
\* a file or passed directly to run_batch.
C13_DegenerateRejected ==
    /\ \A i \in DOMAIN parcels : feats.given => ~Degenerate(parcels[i].geom)
    /\ \A i \in DOMAIN log :
           Degenerate(parcels[i].geom) => ~log[i].metrics_called

\* what holds: the loader drops every degenerate feature, so no degenerate
\* parcel of a loaded file reaches parcel_metrics
C13_LoaderRejects ==
    feats.given =>
        /\ \A i \in DOMAIN parcels : ~Degenerate(parcels[i].geom)
        /\ \A i \in DOMAIN log : log[i].metrics_called /\ log[i].err = "none"

\* a file with a degenerate feature was loaded and its other parcel processed
C13_LoadedWithoutDegenerate ==
    /\ feats.given
    /\ \E k \in DOMAIN feats.features :
           /\ feats.features[k].geometry.type = "Polygon"
           /\ Degenerate(feats.features[k].geometry)
    /\ status = "returned"
    /\ Len(rows) = 1

\* a degenerate parcel passed directly, on which parcel_metrics was called
C13_MetricsCalledOnDegenerate ==
    /\ ~feats.given
    /\ \E i \in DOMAIN log :
           Degenerate(parcels[i].geom) /\ log[i].metrics_called

-----------------------------------------------------------------------------
(* Determinism of run_batch *)

\* row i and building i are what parcel i alone, under the configuration,
\* determines
OwnResult(i) ==
    LET r == massing(parcels[i], cfg)
    IN  /\ ~r.raised
        /\ rows[i] = r.row
        /\ buildings[i] = r.building

-----------------------------------------------------------------------------
(* Setback and scaling fallbacks *)

\* parcel i is a polygon, or has a part, of area > 1e-9
HasArea(i) ==
    LET lp == _largest_polygon(parcels[i].geom)
    IN  ~lp.raised /\ ~LeEps(lp.val.area)

\* C15: under a configuration without error, for every parcel of area > 1e-9
\* the setback never aborts run_batch and the footprint is never empty: the
\* iteration emits a row, whose footprint has area > 1e-9; when the inward
\* offset was empty or of area <= 1e-9 the buildable region is the parcel
\* boundary, and when the scaled region was empty or of area <= 1e-9 the
\* footprint is the buildable region.
C15_SetbackNeverAborts ==
    ValidConfig(cfg) =>
        \A i \in DOMAIN log :
            HasArea(i) =>
                /\ log[i].err = "none"
                /\ i \in DOMAIN rows
                /\ ~LeEps(rows[i].footprint_area)
                /\ log[i].setback_fallback =>
                       Nominal(log[i].buildable_area) = log[i].plot_area
                /\ log[i].scale_fallback =>
                       rows[i].footprint_area = log[i].buildable_area

\* what holds: every emitted row has a footprint of area > 1e-9 with the two
\* fallbacks as described, and a parcel of area > 1e-9 aborts the batch only
\* through the inward offset: a MultiPolygon of total area > 1e-9 none of
\* whose parts exceeds 1e-9, on which _largest_polygon raises
C15_FootprintNeverEmpty ==
    ValidConfig(cfg) =>
        /\ \A i \in DOMAIN rows :
               /\ ~LeEps(rows[i].footprint_area)
               /\ log[i].setback_fallback =>
                      Nominal(log[i].buildable_area) = log[i].plot_area
               /\ log[i].scale_fallback =>
                      rows[i].footprint_area = log[i].buildable_area
        /\ \A i \in DOMAIN log :
               HasArea(i) /\ log[i].err # "none" =>
                   /\ log[i].err = "MultiPolygon has no non-empty parts."
                   /\ log[i].metrics_called
                   /\ ~log[i].setback_fallback
                   /\ DGt(cfg.setback, Zero)

\* both fallbacks taken in emitted rows, and a batch aborted at the setback
C15_FallbacksTaken ==
    /\ ValidConfig(cfg)
    /\ \E i \in DOMAIN rows : log[i].setback_fallback /\ log[i].scale_fallback

C15_AbortedAtSetback ==
    /\ ValidConfig(cfg)
    /\ status = "raised"
    /\ \E i \in DOMAIN log :
           /\ HasArea(i)
           /\ log[i].err = "MultiPolygon has no non-empty parts."

-----------------------------------------------------------------------------
(* Ceiling rounding *)

\* parcel_area * floor_area_ratio of row i
TotalFloorArea(i) == DMul(log[i].plot_area, rows[i].floor_r)

\* n * fp >= total and n * fp < total for a float area fp, whose rounding
\* decides when n times the decimal it was rounded from equals the total
Delivers(n, fp, total) ==
    LET p == DMul(DInt(n), Nominal(fp))
    IN  DGt(p, total) \/ (p = total /\ n * fp.u >= 0)

Short(n, fp, total) == ~Delivers(n, fp, total)

\* C16: for every row whose floor count was not cut by the maximum
\* (floors < max_floors, or the raw count <= max_floors),
\* floors * footprint_area >= parcel_area * floor_area_ratio; and the raw
\* count is the least integer with that property, before the minimum clamp.
C16_CeilingNeverUnderDelivers ==
    \A i \in DOMAIN rows :
        LET raw == log[i].raw_floors
            fp == rows[i].footprint_area
        IN  /\ (rows[i].floors < cfg.max_floors \/ raw <= cfg.max_floors) =>
                   Delivers(rows[i].floors, fp, TotalFloorArea(i))
            /\ Delivers(raw, fp, TotalFloorArea(i))
            /\ Short(raw - 1, fp, TotalFloorArea(i))

\* a row whose quotient is not whole and was rounded up (2400 * 2.5 / 1440
\* gives 5), neither clamp applying, next to a row raised to the minimum
C16_Witness ==
    /\ \E i \in DOMAIN rows :
           /\ rows[i].floors = log[i].raw_floors
           /\ log[i].raw_floors >= 2
           /\ DGt(DMul(DInt(rows[i].floors), Nominal(rows[i].footprint_area)),
                  TotalFloorArea(i))
           /\ Short(rows[i].floors - 1, rows[i].footprint_area, TotalFloorArea(i))
    /\ \E i \in DOMAIN rows :
           /\ log[i].raw_floors < cfg.min_floors
           /\ rows[i].floors = cfg.min_floors

-----------------------------------------------------------------------------
(* Properties of compute_buildable_volume (specification SpecVolume) *)

VolDone == vol.pc = "done"

\* far > 0, floor_height > 0, min_floors >= 1, and a parcel whose setback
\* region has area > 1e-9
VolArgsValid ==
    /\ DGt(vol.far, Zero)
    /\ DGt(vol.floor_height, Zero)
    /\ vol.min_floors >= 1
    /\ vol.polygon.type = "Polygon"
    /\ vol.polygon.ring # <<>>
    /\ LET b == IF vol.setback # Zero THEN buffer_in(vol.polygon, vol.setback)
                 ELSE vol.polygon
       IN  ~is_empty(b) /\ ~LeEps(GeomArea(b))

\* the arguments main.py passes
VolIsMainExample ==
    /\ vol.polygon = box(0, 0, 60, 40)
    /\ vol.far = DInt(3)
    /\ vol.setback = DInt(3)
    /\ vol.floor_height = Dec(36, 1)
    /\ vol.min_floors = 1

\* run_batch's row for the 60 x 40 parcel with floor_r 3.0 under setback 3.0,
\* floor height 3.6 and the default floor limits and coverage
BatchExampleRow ==
    massing([id |-> "R60x40", geom |-> box(0, 0, 60, 40),
             props |-> [floor_r |-> Num(DInt(3))]],
            [setback |-> DInt(3), floor_height |-> Dec(36, 1), min_floors |-> 1,
             max_floors |-> 60, fallback_bcr |-> Dec(6, 1),
             fallback_far |-> Dec(25, 1), far_rule |-> "far_rule_area"]).row

\* C17: for valid arguments compute_buildable_volume returns
\* floor_count = max(floor(parcel_area * far / setback_region_area), min_floors)
\* (truncated, no upper clamp, no coverage scaling) and
\* height = floor_count * floor_height, so floor_count * setback_region_area
\* <= parcel_area * far whenever floor_count > min_floors; for main.py's
\* 60 x 40 parcel (far 3.0, setback 3.0, floor height 3.6) it returns 3
\* floors, which is not run_batch's count for that parcel.
C17_TruncatingVariant ==
    VolDone /\ VolArgsValid =>
        /\ ~vol.out.raised
        /\ LET r == vol.out.val
               n == r.floor_count
               total == DMul(vol.polygon.area, vol.far)
           IN  /\ n >= vol.min_floors
               /\ DGt(DMul(DInt(n + 1), r.buildable_area), total)
               /\ n > vol.min_floors => DLe(DMul(DInt(n), r.buildable_area), total)
               /\ r.height = DMul(DInt(n), vol.floor_height)
               /\ r.buildable_area = GeomArea(r.buildable_polygon)
               /\ VolIsMainExample =>
                      /\ r.buildable_area = DInt(1836)
                      /\ n = 3
                      /\ r.height = Dec(108, 1)
                      /\ BatchExampleRow.floors # n

\* main.py's call has returned: 3 floors, above min_floors
C17_Witness ==
    /\ VolDone
    /\ VolArgsValid
    /\ VolIsMainExample
    /\ vol.out.val.floor_count = 3
    /\ vol.out.val.floor_count > vol.min_floors
====
